---- MODULE Spec2Model ----
(***************************************************************************)
(* HMS front end: the API client (axios instance, request interceptor,     *)
(* authAPI / patientsAPI / doctorsAPI, tokenUtils), the Login, Patients    *)
(* and BookAppointment pages and the PatientsExample component, as one     *)
(* state machine.                                                          *)
(*                                                                         *)
(* One component is mounted at a time (variable route).  "api" stands for  *)
(* caller code that uses the exported API client and token helpers         *)
(* directly, one awaited call after the other.                             *)
(*                                                                         *)
(* Optional values (null / undefined in the source) are sequences of       *)
(* length at most one: None is absent, Some(v) is present.  Text typed by  *)
(* the user is a sequence of one-character strings.                        *)
(***************************************************************************)
EXTENDS Integers, Sequences, FiniteSets, TLC

VARIABLES
    route,      \* the mounted component, or the path navigate() was called with
    storage,    \* window.localStorage, restricted to the two token keys
    tz,         \* the browser's offset from UTC in hours (local = UTC + tz)
    login,      \* the useState cells of Login
    book,       \* the useState cells of BookAppointment and its pending requests
    api,        \* the direct caller: its pending call and the last call's outcome
    pat,        \* the useState cells of Patients, its pending fetches and the clock
    ex,         \* the useState cells of PatientsExample and its pending calls
    ev,         \* history: the handler that ran last and the requests it transmitted
    lastWrite,  \* history: the last setTokens / removeTokens call
    escaped     \* history: the handlers whose promise was rejected with nobody to catch it

vars == <<route, storage, tz, login, book, api, pat, ex, ev, lastWrite, escaped>>

----------------------------------------------------------------------------
(* Bounds of the model *)

\* longest text typed into a Login input
MaxLen == 2
\* patient and doctor identifiers are 0 .. MaxId
MaxId == 1
\* most requests one component has awaiting an answer at a time
MaxInFlight == 2

----------------------------------------------------------------------------
(* Values *)

None == <<>>
Some(v) == <<v>>
IsSome(o) == o # <<>>
Val(o) == o[1]

RECURSIVE TextUpTo(_, _)
TextUpTo(alphabet, n) ==
    IF n = 0 THEN {<<>>}
    ELSE LET shorter == TextUpTo(alphabet, n - 1)
         IN  shorter \cup {Append(s, c) : s \in shorter, c \in alphabet}

\* JavaScript's String.prototype.trim: leading and trailing white space removed
IsSpace(c) == c = " "

RECURSIVE TrimStart(_)
TrimStart(s) ==
    IF s = <<>> THEN s
    ELSE IF IsSpace(Head(s)) THEN TrimStart(Tail(s)) ELSE s

RECURSIVE TrimEnd(_)
TrimEnd(s) ==
    IF s = <<>> THEN s
    ELSE IF IsSpace(s[Len(s)]) THEN TrimEnd(SubSeq(s, 1, Len(s) - 1)) ELSE s

trim(s) == TrimEnd(TrimStart(s))

\* JavaScript truthiness of a string-or-null/undefined value: !!v
TruthyStr(o) == IsSome(o) /\ Val(o) # ""

\* JavaScript truthiness of text held as characters: !!s
TruthyText(s) == s # <<>>

\* JavaScript truthiness of a number-or-null value: !!n  (0 is falsy)
TruthyNum(o) == IsSome(o) /\ Val(o) # 0

\* a || b on optional strings
OrElse(a, b) == IF TruthyStr(a) THEN a ELSE b

Ids == 0 .. MaxId

\* opaque token strings the backend may hand out or a caller may pass
TokenStrings == {"", "tA", "tB"}

----------------------------------------------------------------------------
(* localStorage and tokenUtils *)

StorageKeys == {"authToken", "refreshToken"}

getItem(store, key) == store[key]

setItem(store, key, value) == [store EXCEPT ![key] = Some(value)]

removeItem(store, key) == [store EXCEPT ![key] = None]

setTokensBug(store, access, refresh) ==
    setItem(setItem(store, "authToken", refresh), "refreshToken", access)

setTokens(store, access, refresh) ==
    setItem(setItem(store, "authToken", access), "refreshToken", refresh)

removeTokensAccessOnly(store) == removeItem(store, "authToken")

removeTokens(store) ==
    removeItem(removeItem(store, "authToken"), "refreshToken")

getAccessToken == getItem(storage, "authToken")

getRefreshToken == getItem(storage, "refreshToken")

isAuthenticatedByRefresh(store) == TruthyStr(getItem(store, "refreshToken"))

\* const token = localStorage.getItem('authToken'); return !!token
isAuthenticated(store) == TruthyStr(getItem(store, "authToken"))

----------------------------------------------------------------------------
(* apiConfig.endpoints *)

Str(id) == ToString(id)

auth_token == <<"/api/token/">>
auth_tokenRefresh == <<"/api/token/refresh/">>
auth_register == <<"/register">>
patients_list == <<"/patients/">>
patients_detail(id) == <<"/patients/", Str(id)>>
patients_vitals(id) == <<"/patients/", Str(id), "/vitals">>
patients_medicalRecords(id) == <<"/patients/", Str(id), "/records">>
patients_medicalRecordDetail(patientId, recordId) ==
    <<"/patients/", Str(patientId), "/records/", Str(recordId)>>
patients_emergencyContact(id) == <<"/patients/", Str(id), "/emergency_contact">>
patients_checkIns == <<"/patients/check-ins">>
patients_checkInDetailBug(id) == <<"/patients/checkins/", Str(id)>>

patients_checkInDetail(id) == <<"/patients/check-ins/", Str(id)>>
patients_appointments == <<"/patients/appointments">>
patients_appointmentDetail(id) == <<"/patients/appointments/", Str(id)>>
staff_doctors == <<"/staff/doctors">>
staff_doctorDetail(id) == <<"/staff/doctors/", Str(id)>>

----------------------------------------------------------------------------
(* apiClient: the axios instance and its request interceptor *)

\* the request config an apiClient.get/post/put/delete call starts from
Req(method, url, data) ==
    [method  |-> method,
     url     |-> url,
     data    |-> data,
     headers |-> [ContentType |-> "application/json", Authorization |-> None]]

\* `Bearer ${token}`
Bearer(token) == [scheme |-> "Bearer", credentials |-> token]

RequestInterceptorRejects(store, config) ==
    LET token == getItem(store, "authToken")
    IN  IF TruthyStr(token)
        THEN [ok |-> TRUE,
              config |-> [config EXCEPT !.headers.Authorization = Some(Bearer(Val(token)))]]
        ELSE [ok |-> FALSE, config |-> config]

RequestInterceptorOmits(store, config) ==
    [ok |-> TRUE, config |-> config]

\* apiClient.interceptors.request.use(onFulfilled, ...): ok is FALSE when the
\* interceptor rejects, and the request is then never transmitted
RequestInterceptor(store, config) ==
    LET token == getItem(store, "authToken")
    IN  [ok |-> TRUE,
         config |-> IF TruthyStr(token)
                    THEN [config EXCEPT !.headers.Authorization = Some(Bearer(Val(token)))]
                    ELSE config]

\* the requests put on the wire by one apiClient call
Transmit(store, config) ==
    LET r == RequestInterceptor(store, config)
    IN  IF r.ok THEN {r.config} ELSE {}

\* what the backend or the network can answer
NetworkError == [kind |-> "network", status |-> 0, data |-> None]
Answer(status, data) == [kind |-> "response", status |-> status, data |-> data]

\* axios' default validateStatus (the instance sets none)
validateStatus(status) == status >= 200 /\ status < 300

\* how the promise of an apiClient call settles
AxiosSettle(outcome) ==
    IF outcome.kind = "response" /\ validateStatus(outcome.status)
    THEN [kind |-> "resolve",
          response |-> [status |-> outcome.status, data |-> outcome.data]]
    ELSE [kind |-> "reject",
          error |-> [response |-> IF outcome.kind = "response"
                                  THEN Some([status |-> outcome.status,
                                             data   |-> outcome.data])
                                  ELSE None]]

----------------------------------------------------------------------------
(* authAPI, patientsAPI, doctorsAPI *)

AuthOps == {"authAPI.login", "authAPI.refreshToken", "authAPI.register"}

PatientOps ==
    {"patientsAPI.getAll", "patientsAPI.getById", "patientsAPI.create",
     "patientsAPI.update", "patientsAPI.delete"}

VitalsOps ==
    {"patientsAPI.vitals.get", "patientsAPI.vitals.create",
     "patientsAPI.vitals.update", "patientsAPI.vitals.delete"}

RecordOps ==
    {"patientsAPI.medicalRecords.getAll", "patientsAPI.medicalRecords.getById",
     "patientsAPI.medicalRecords.create", "patientsAPI.medicalRecords.update",
     "patientsAPI.medicalRecords.delete"}

ContactOps ==
    {"patientsAPI.emergencyContact.get", "patientsAPI.emergencyContact.create",
     "patientsAPI.emergencyContact.update", "patientsAPI.emergencyContact.delete"}

CheckInOps ==
    {"patientsAPI.checkIns.getAll", "patientsAPI.checkIns.getById",
     "patientsAPI.checkIns.create", "patientsAPI.checkIns.update",
     "patientsAPI.checkIns.delete"}

AppointmentOps ==
    {"patientsAPI.appointments.getAll", "patientsAPI.appointments.getById",
     "patientsAPI.appointments.create", "patientsAPI.appointments.update",
     "patientsAPI.appointments.delete"}

DoctorOps ==
    {"doctorsAPI.getAll", "doctorsAPI.getById", "doctorsAPI.create",
     "doctorsAPI.update", "doctorsAPI.delete"}

ApiOps ==
    AuthOps \cup PatientOps \cup VitalsOps \cup RecordOps \cup ContactOps
        \cup CheckInOps \cup AppointmentOps \cup DoctorOps

\* the operations declared Promise<void>: they await the call and return nothing
VoidOps ==
    {"patientsAPI.delete", "patientsAPI.vitals.delete",
     "patientsAPI.medicalRecords.delete", "patientsAPI.emergencyContact.delete",
     "patientsAPI.checkIns.delete", "patientsAPI.appointments.delete",
     "doctorsAPI.delete"}

\* the apiClient call each operation makes; id and rid are its identifier
\* arguments, data its payload argument (None where it takes none)
OpConfig(op, id, rid, data) ==
    CASE op = "authAPI.login"          -> Req("POST", auth_token, data)
      [] op = "authAPI.refreshToken"   -> Req("POST", auth_tokenRefresh, data)
      [] op = "authAPI.register"       -> Req("POST", auth_register, data)
      [] op = "patientsAPI.getAll"     -> Req("GET", patients_list, None)
      [] op = "patientsAPI.getById"    -> Req("GET", patients_detail(id), None)
      [] op = "patientsAPI.create"     -> Req("POST", patients_list, data)
      [] op = "patientsAPI.update"     -> Req("PUT", patients_detail(id), data)
      [] op = "patientsAPI.delete"     -> Req("DELETE", patients_detail(id), None)
      [] op = "patientsAPI.vitals.get"    -> Req("GET", patients_vitals(id), None)
      [] op = "patientsAPI.vitals.create" -> Req("POST", patients_vitals(id), data)
      [] op = "patientsAPI.vitals.update" -> Req("PUT", patients_vitals(id), data)
      [] op = "patientsAPI.vitals.delete" ->
            Req("DELETE", patients_vitals(id), Some([vitals_id |-> rid]))
      [] op = "patientsAPI.medicalRecords.getAll" ->
            Req("GET", patients_medicalRecords(id), None)
      [] op = "patientsAPI.medicalRecords.getById" ->
            Req("GET", patients_medicalRecordDetail(id, rid), None)
      [] op = "patientsAPI.medicalRecords.create" ->
            Req("POST", patients_medicalRecords(id), data)
      [] op = "patientsAPI.medicalRecords.update" ->
            Req("PUT", patients_medicalRecordDetail(id, rid), data)
      [] op = "patientsAPI.medicalRecords.delete" ->
            Req("DELETE", patients_medicalRecordDetail(id, rid), None)
      [] op = "patientsAPI.emergencyContact.get" ->
            Req("GET", patients_emergencyContact(id), None)
      [] op = "patientsAPI.emergencyContact.create" ->
            Req("POST", patients_emergencyContact(id), data)
      [] op = "patientsAPI.emergencyContact.update" ->
            Req("PUT", patients_emergencyContact(id), data)
      [] op = "patientsAPI.emergencyContact.delete" ->
            Req("DELETE", patients_emergencyContact(id), None)
      [] op = "patientsAPI.checkIns.getAll"  -> Req("GET", patients_checkIns, None)
      [] op = "patientsAPI.checkIns.getById" -> Req("GET", patients_checkInDetail(id), None)
      [] op = "patientsAPI.checkIns.create"  -> Req("POST", patients_checkIns, data)
      [] op = "patientsAPI.checkIns.update"  -> Req("PUT", patients_checkInDetail(id), None)
      [] op = "patientsAPI.checkIns.delete"  -> Req("DELETE", patients_checkInDetail(id), None)
      [] op = "patientsAPI.appointments.getAll" ->
            Req("GET", patients_appointments, None)
      [] op = "patientsAPI.appointments.getById" ->
            Req("GET", patients_appointmentDetail(id), None)
      [] op = "patientsAPI.appointments.create" ->
            Req("POST", patients_appointments, data)
      [] op = "patientsAPI.appointments.update" ->
            Req("PUT", patients_appointmentDetail(id), data)
      [] op = "patientsAPI.appointments.delete" ->
            Req("DELETE", patients_appointmentDetail(id), None)
      [] op = "doctorsAPI.getAll"  -> Req("GET", staff_doctors, None)
      [] op = "doctorsAPI.getById" -> Req("GET", staff_doctorDetail(id), None)
      [] op = "doctorsAPI.create"  -> Req("POST", staff_doctors, data)
      [] op = "doctorsAPI.update"  -> Req("PUT", staff_doctorDetail(id), data)
      [] op = "doctorsAPI.delete"  -> Req("DELETE", staff_doctorDetail(id), None)

OpResultSwallows(op, outcome) ==
    LET settled == AxiosSettle(outcome)
    IN  IF settled.kind = "resolve"
        THEN [kind |-> "return", value |-> settled.response.data]
        ELSE [kind |-> "return", value |-> None]

\* what an operation hands its caller once its apiClient call has settled:
\* `const response = await apiClient...; return response.data` (no try/catch)
OpResult(op, outcome) ==
    LET settled == AxiosSettle(outcome)
    IN  IF settled.kind = "resolve"
        THEN [kind  |-> "return",
              value |-> IF op \in VoidOps THEN None ELSE settled.response.data]
        ELSE [kind |-> "throw", error |-> settled.error]

----------------------------------------------------------------------------
(* Handlers: async functions whose promise React drops *)

NoCatch(res) == res

\* try { ... await op ... } catch (error) { ... } around a call that ended as
\* res: the catch block takes the error and the handler's own promise is
\* fulfilled either way (no catch or finally block of the pages throws)
TryCatch(res) ==
    IF res.kind = "throw" THEN [kind |-> "return", value |-> None] ELSE res

\* the unhandled rejection a handler leaves behind when its promise ends as res
Rejections(handler, res) == IF res.kind = "throw" THEN {handler} ELSE {}

----------------------------------------------------------------------------
(* History *)

NoOutcome == [kind |-> "none", status |-> 0, data |-> None]

\* name: the handler or helper that ran; calls: the API operations it invoked;
\* sent: the requests they put on the wire; op, outcome: the operation whose
\* await it resumed from and the answer it got; store: localStorage as the step
\* found it
Event(name, calls, sent, op, outcome) ==
    [name |-> name, calls |-> calls, sent |-> sent, op |-> op, outcome |-> outcome,
     store |-> storage]

----------------------------------------------------------------------------
(* What the backend can answer *)

FailStatuses == {304, 401, 500}

\* the fields the pages look for in an error body, each absent or set
ErrBodies ==
    [detail  : {None, Some("detail text")},
     message : {None, Some("message text")},
     error   : {None, Some("error text")}]

Failures ==
    {NetworkError} \cup {Answer(st, None) : st \in FailStatuses}
        \cup {Answer(400, Some(b)) : b \in ErrBodies}

\* error.response?.data?.[field]
ErrField(error, field) ==
    IF IsSome(error.response) /\ IsSome(Val(error.response).data)
    THEN Val(Val(error.response).data)[field]
    ELSE None

----------------------------------------------------------------------------
(* Direct use of the API client and the token helpers *)

\* args: the identifier arguments of the last call
ApiInit == [pending |-> None, result |-> None, args |-> <<0, 0>>]

Payload == Some([payload |-> "p"])

ApiAnswers ==
    {NetworkError} \cup
    {Answer(st, d) : st \in {200, 204} \cup FailStatuses, d \in {None, Payload}}

\* the identifier arguments an operation takes: none, one or two
OpArgs(op) ==
    IF op \in {"patientsAPI.vitals.delete", "patientsAPI.medicalRecords.getById",
               "patientsAPI.medicalRecords.update", "patientsAPI.medicalRecords.delete"}
    THEN Ids \X Ids
    ELSE IF op \in AuthOps \cup
                   {"patientsAPI.getAll", "patientsAPI.create", "doctorsAPI.getAll",
                    "doctorsAPI.create", "patientsAPI.checkIns.getAll",
                    "patientsAPI.checkIns.create", "patientsAPI.appointments.getAll",
                    "patientsAPI.appointments.create"}
         THEN {<<0, 0>>}
         ELSE Ids \X {0}

\* tokenUtils.setTokens(access, refresh)
CallSetTokens(access, refresh) ==
    /\ route = "api"
    /\ storage' = setTokens(storage, access, refresh)
    /\ lastWrite' = [op |-> "setTokens", access |-> access, refresh |-> refresh]
    /\ ev' = Event("setTokens", {}, {}, "", NoOutcome)
    /\ UNCHANGED <<route, tz, login, book, api, pat, ex, escaped>>

\* tokenUtils.removeTokens()
CallRemoveTokens ==
    /\ route = "api"
    /\ storage' = removeTokens(storage)
    /\ lastWrite' = [op |-> "removeTokens", access |-> "", refresh |-> ""]
    /\ ev' = Event("removeTokens", {}, {}, "", NoOutcome)
    /\ UNCHANGED <<route, tz, login, book, api, pat, ex, escaped>>

\* a caller invokes one operation of authAPI / patientsAPI / doctorsAPI and
\* awaits it; when the interceptor rejects, the call throws without a request
ApiCall(op, id, rid) ==
    /\ route = "api"
    /\ api.pending = None
    /\ LET sent == Transmit(storage, OpConfig(op, id, rid, Payload))
       IN  /\ api' = IF sent = {}
                     THEN [pending |-> None,
                           result  |-> Some([kind |-> "throw", error |-> [response |-> None]]),
                           args    |-> <<id, rid>>]
                     ELSE [pending |-> Some(op), result |-> None, args |-> <<id, rid>>]
           /\ ev' = Event("apiCall", {op}, sent, "", NoOutcome)
    /\ UNCHANGED <<route, storage, tz, login, book, lastWrite, pat, ex, escaped>>

\* tokenUtils.getAccessToken()
CallGetAccessToken ==
    /\ route = "api"
    /\ api.pending = None
    /\ api' = [api EXCEPT !.result = Some([kind |-> "return", value |-> getAccessToken])]
    /\ ev' = Event("getAccessToken", {}, {}, "", NoOutcome)
    /\ UNCHANGED <<route, storage, tz, login, book, lastWrite, pat, ex, escaped>>

\* tokenUtils.getRefreshToken()
CallGetRefreshToken ==
    /\ route = "api"
    /\ api.pending = None
    /\ api' = [api EXCEPT !.result = Some([kind |-> "return", value |-> getRefreshToken])]
    /\ ev' = Event("getRefreshToken", {}, {}, "", NoOutcome)
    /\ UNCHANGED <<route, storage, tz, login, book, lastWrite, pat, ex, escaped>>

\* tokenUtils.isAuthenticated()
CallIsAuthenticated ==
    /\ route = "api"
    /\ api.pending = None
    /\ api' = [api EXCEPT
                  !.result = Some([kind |-> "return",
                                   value |-> Some(isAuthenticated(storage))])]
    /\ ev' = Event("isAuthenticated", {}, {}, "", NoOutcome)
    /\ UNCHANGED <<route, storage, tz, login, book, lastWrite, pat, ex, escaped>>

ApiSettleStores(outcome) ==
    /\ route = "api"
    /\ IsSome(api.pending)
    /\ api' = [api EXCEPT !.pending = None,
                          !.result = Some(OpResult(Val(api.pending), outcome))]
    /\ storage' = IF Val(api.pending) = "authAPI.refreshToken"
                       /\ OpResult(Val(api.pending), outcome).kind = "return"
                  THEN setItem(storage, "authToken", "tB")
                  ELSE storage
    /\ ev' = Event("apiSettle", {}, {}, Val(api.pending), outcome)
    /\ UNCHANGED <<route, tz, login, book, lastWrite, pat, ex, escaped>>

ApiSettleRefreshes(outcome) ==
    /\ route = "api"
    /\ IsSome(api.pending)
    /\ LET refresh == outcome.kind = "response" /\ outcome.status = 401
                          /\ Val(api.pending) # "authAPI.refreshToken"
           sent == IF refresh
                   THEN Transmit(storage, OpConfig("authAPI.refreshToken", 0, 0, Payload))
                   ELSE {}
       IN  /\ api' = IF refresh
                     THEN [api EXCEPT !.pending = Some("authAPI.refreshToken")]
                     ELSE [api EXCEPT !.pending = None,
                                      !.result = Some(OpResult(Val(api.pending), outcome))]
           /\ ev' = Event("apiSettle", IF refresh THEN {"authAPI.refreshToken"} ELSE {},
                          sent, Val(api.pending), outcome)
    /\ UNCHANGED <<route, storage, tz, login, book, lastWrite, pat, ex, escaped>>

\* the awaited call settles and the operation returns or throws
ApiSettle(outcome) ==
    /\ route = "api"
    /\ IsSome(api.pending)
    /\ api' = [api EXCEPT !.pending = None,
                          !.result = Some(OpResult(Val(api.pending), outcome))]
    /\ ev' = Event("apiSettle", {}, {}, Val(api.pending), outcome)
    /\ UNCHANGED <<route, storage, tz, login, book, lastWrite, pat, ex, escaped>>

----------------------------------------------------------------------------
(* Login *)

Texts == TextUpTo({" ", "a"}, MaxLen)

LoginInit ==
    [email |-> <<>>, password |-> <<>>, emailError |-> "", passwordError |-> "",
     loginError |-> "", isLoading |-> FALSE,
     pending |-> 0]   \* the onButtonClick invocations awaiting authAPI.login

LoginAnswers ==
    {Answer(200, Some([access |-> a, refresh |-> r])) : a, r \in TokenStrings}
        \cup Failures

\* onChange of the email input
setEmail(value) ==
    /\ route = "Login"
    /\ login' = [login EXCEPT !.email = value]
    /\ ev' = Event("onChange", {}, {}, "", NoOutcome)
    /\ UNCHANGED <<route, storage, tz, book, api, lastWrite, pat, ex, escaped>>

\* onChange of the password input
setPassword(value) ==
    /\ route = "Login"
    /\ login' = [login EXCEPT !.password = value]
    /\ ev' = Event("onChange", {}, {}, "", NoOutcome)
    /\ UNCHANGED <<route, storage, tz, book, api, lastWrite, pat, ex, escaped>>

LoginFieldBlankBug(text) == text = <<>>

\* email.trim() === ""
LoginFieldBlank(text) == trim(text) = <<>>

LoginButtonAlwaysEnabled == FALSE

\* disabled={isLoading} on the Log in button
LoginButtonDisabled == login.isLoading

\* onButtonClick up to its await; a disabled button takes no click
onButtonClick ==
    /\ route = "Login"
    /\ ~LoginButtonDisabled
    /\ login.pending < MaxInFlight
    /\ LET emailBlank == LoginFieldBlank(login.email)
           passwordBlank == LoginFieldBlank(login.password)
           isValid == ~emailBlank /\ ~passwordBlank
           sent == IF isValid
                   THEN Transmit(storage,
                                 OpConfig("authAPI.login", 0, 0,
                                          Some([username |-> login.email,
                                                password |-> login.password])))
                   ELSE {}
       IN  /\ login' = [login EXCEPT
                          !.loginError = "",
                          !.emailError = IF emailBlank THEN "Email is required" ELSE "",
                          !.passwordError =
                              IF passwordBlank THEN "Password is required" ELSE "",
                          !.isLoading = IF isValid THEN TRUE ELSE @,
                          !.pending = IF isValid THEN @ + 1 ELSE @]
           /\ ev' = Event("onButtonClick", IF isValid THEN {"authAPI.login"} ELSE {},
                          sent, "", NoOutcome)
    /\ UNCHANGED <<route, storage, tz, book, api, lastWrite, pat, ex, escaped>>

\* error.response?.data?.detail || error.response?.data?.message || "Invalid ..."
LoginMessage(error) ==
    Val(OrElse(ErrField(error, "detail"),
               OrElse(ErrField(error, "message"),
                      Some("Invalid credentials. Please try again."))))

LoginSettleSkipsTokens(outcome) ==
    /\ route = "Login"
    /\ login.pending > 0
    /\ LET res == OpResult("authAPI.login", outcome)
       IN  IF res.kind = "return"
           THEN /\ route' = "/dashboard"
                /\ login' = LoginInit
           ELSE /\ login' = [login EXCEPT !.loginError = LoginMessage(res.error),
                                          !.isLoading = FALSE, !.pending = @ - 1]
                /\ UNCHANGED route
    /\ ev' = Event("LoginSettle", {}, {}, "authAPI.login", outcome)
    /\ UNCHANGED <<storage, lastWrite, tz, book, api, pat, ex, escaped>>

\* onButtonClick from its await on: try / catch / finally; navigate() unmounts
\* the component, and its state goes with it
LoginSettle(outcome) ==
    /\ route = "Login"
    /\ login.pending > 0
    /\ LET res == OpResult("authAPI.login", outcome)
       IN  /\ IF res.kind = "return"
              THEN /\ storage' = setTokens(storage, Val(res.value).access,
                                           Val(res.value).refresh)
                   /\ lastWrite' = [op |-> "setTokens", access |-> Val(res.value).access,
                                    refresh |-> Val(res.value).refresh]
                   /\ route' = "/dashboard"
                   /\ login' = LoginInit
              ELSE /\ login' = [login EXCEPT !.loginError = LoginMessage(res.error),
                                             !.isLoading = FALSE, !.pending = @ - 1]
                   /\ UNCHANGED <<route, storage, lastWrite>>
           /\ escaped' = escaped \cup Rejections("onButtonClick", TryCatch(res))
    /\ ev' = Event("LoginSettle", {}, {}, "authAPI.login", outcome)
    /\ UNCHANGED <<tz, book, api, pat, ex>>

----------------------------------------------------------------------------
(* Dates: a JavaScript Date as the DatePicker hands it over, by its local
   calendar fields; h is the hour of the local time of day it carries *)

IsLeap(y) == (y % 4 = 0 /\ y % 100 # 0) \/ y % 400 = 0

DaysInMonth(y, m) ==
    IF m = 2 THEN (IF IsLeap(y) THEN 29 ELSE 28)
    ELSE IF m \in {4, 6, 9, 11} THEN 30 ELSE 31

PrevDay(t) ==
    IF t.d > 1 THEN [t EXCEPT !.d = @ - 1]
    ELSE IF t.m > 1 THEN [t EXCEPT !.m = @ - 1, !.d = DaysInMonth(t.y, t.m - 1)]
    ELSE [t EXCEPT !.y = @ - 1, !.m = 12, !.d = 31]

NextDay(t) ==
    IF t.d < DaysInMonth(t.y, t.m) THEN [t EXCEPT !.d = @ + 1]
    ELSE IF t.m < 12 THEN [t EXCEPT !.m = @ + 1, !.d = 1]
    ELSE [t EXCEPT !.y = @ + 1, !.m = 1, !.d = 1]

\* the UTC calendar fields of a local time, in a zone offset hours ahead of UTC
ToUTC(t, offset) ==
    LET hh == t.h - offset
    IN  IF hh < 0 THEN [PrevDay(t) EXCEPT !.h = hh + 24]
        ELSE IF hh > 23 THEN [NextDay(t) EXCEPT !.h = hh - 24]
        ELSE [t EXCEPT !.h = hh]

Digit(k) == ToString(k)

Pad2(n) == <<Digit(n \div 10), Digit(n % 10)>>

Pad4(n) ==
    <<Digit(n \div 1000), Digit((n \div 100) % 10), Digit((n \div 10) % 10), Digit(n % 10)>>

\* Date.prototype.toISOString: YYYY-MM-DDTHH:mm:ss.sssZ, in UTC
toISOString(t, offset) ==
    LET u == ToUTC(t, offset)
    IN  Pad4(u.y) \o <<"-">> \o Pad2(u.m) \o <<"-">> \o Pad2(u.d) \o <<"T">>
            \o Pad2(u.h) \o <<":", "0", "0", ":", "0", "0", ".", "0", "0", "0", "Z">>

\* s.split(sep)[0]: the part of s before the first sep
RECURSIVE SplitFirst(_, _)
SplitFirst(s, sep) ==
    IF s = <<>> \/ Head(s) = sep THEN <<>>
    ELSE <<Head(s)>> \o SplitFirst(Tail(s), sep)

\* date!.toISOString().split('T')[0]
formattedDate(t, offset) == SplitFirst(toISOString(t, offset), "T")

\* the local calendar fields of a UTC time, in a zone offset hours ahead of UTC
ToLocal(u, offset) == ToUTC(u, 0 - offset)

DigitValue(c) == CHOOSE k \in 0 .. 9 : Digit(k) = c

RECURSIVE Number(_)
Number(s) ==
    IF s = <<>> THEN 0
    ELSE 10 * Number(SubSeq(s, 1, Len(s) - 1)) + DigitValue(s[Len(s)])

\* new Date("YYYY-MM-DD"): a date-only string is taken as midnight UTC
ParseDateOnly(s) ==
    [y |-> Number(SubSeq(s, 1, 4)), m |-> Number(SubSeq(s, 6, 7)),
     d |-> Number(SubSeq(s, 9, 10)), h |-> 0]

\* calculateAge(dateOfBirth), with new Date() showing the local time today;
\* getFullYear / getMonth / getDate read local calendar fields
calculateAge(dateOfBirth, today, offset) ==
    LET birth == ToLocal(ParseDateOnly(dateOfBirth), offset)
        age == today.y - birth.y
        monthDiff == today.m - birth.m
    IN  IF monthDiff < 0 \/ (monthDiff = 0 /\ today.d < birth.d)
        THEN age - 1
        ELSE age

----------------------------------------------------------------------------
(* BookAppointment *)

\* the Dates the picker can hand over
DateSamples ==
    {[y |-> 2024, m |-> 12, d |-> 15, h |-> 0],
     [y |-> 2024, m |-> 12, d |-> 31, h |-> 23]}

\* what the user can type into the time input: a plain text Input
TimeTexts == {<<>>, <<" ">>, <<"9">>, <<"1", "0", ":", "0", "0">>}

\* what the user can type into the reason textarea
ReasonTexts == {<<>>, <<"f", "l", "u">>}

\* the identifiers a list response can carry, in order
IdLists == {<<>>, [i \in 1 .. MaxId + 1 |-> i - 1]}

Elems(list) == {list[i] : i \in 1 .. Len(list)}

BookInit ==
    [selectedPatient |-> None, selectedDoctor |-> None, date |-> None,
     timeStr |-> <<>>, reason |-> <<>>,
     patients |-> <<>>, doctors |-> <<>>,
     loading |-> FALSE, submitting |-> FALSE, error |-> "",
     patientError |-> "", doctorError |-> "", dateError |-> "", timeError |-> "",
     mounted |-> FALSE,       \* the mount effect has run
     loadPending |-> {},      \* the list fetches still awaiting their answer
     loadJoined |-> FALSE,    \* the Promise.all of loadData has settled
     loadResults |-> <<None, None>>,  \* the answers it holds so far
     createPending |-> 0]     \* the handleSubmit invocations awaiting appointments.create

\* the form is on screen: the component renders only a notice while loading
FormShown == route = "BookAppointment" /\ book.mounted /\ ~book.loading

\* useEffect(() => { loadData() }, []) up to the await of Promise.all
loadData ==
    /\ route = "BookAppointment"
    /\ ~book.mounted
    /\ LET sent == Transmit(storage, OpConfig("patientsAPI.getAll", 0, 0, None))
                       \cup Transmit(storage, OpConfig("doctorsAPI.getAll", 0, 0, None))
       IN  /\ book' = [book EXCEPT !.mounted = TRUE, !.loading = TRUE,
                                   !.loadPending = {"patientsAPI.getAll", "doctorsAPI.getAll"}]
           /\ ev' = Event("loadData", {"patientsAPI.getAll", "doctorsAPI.getAll"}, sent,
                          "", NoOutcome)
    /\ UNCHANGED <<route, storage, tz, login, api, lastWrite, pat, ex, escaped>>

ListAnswers(op) ==
    {Answer(200, Some(IF op = "patientsAPI.getAll"
                      THEN [patients |-> l] ELSE [doctors |-> l])) : l \in IdLists}
        \cup {NetworkError, Answer(500, None)}

LoadSettleEach(op, outcome) ==
    /\ route = "BookAppointment"
    /\ op \in book.loadPending
    /\ LET res == OpResult(op, outcome)
           slot == IF op = "patientsAPI.getAll" THEN 1 ELSE 2
           pending == book.loadPending \ {op}
       IN  IF res.kind = "throw"
           THEN book' = [book EXCEPT !.loadPending = pending, !.loadJoined = TRUE,
                                     !.error = "Failed to load patients and doctors",
                                     !.loading = FALSE]
           ELSE book' = [book EXCEPT
                           !.loadPending = pending,
                           !.loadJoined = (pending = {}),
                           !.loadResults[slot] = Some(res),
                           !.patients = IF slot = 1 THEN Val(res.value).patients ELSE @,
                           !.doctors = IF slot = 2 THEN Val(res.value).doctors ELSE @,
                           !.loading = pending # {}]
    /\ ev' = Event("LoadSettle", {}, {}, op, outcome)
    /\ UNCHANGED <<route, storage, tz, login, api, lastWrite, pat, ex, escaped>>

\* one of the two list fetches settles; Promise.all rejects with the first
\* failure and resolves once both have succeeded, and loadData resumes then
LoadSettle(op, outcome) ==
    /\ route = "BookAppointment"
    /\ op \in book.loadPending
    /\ LET res == OpResult(op, outcome)
           slot == IF op = "patientsAPI.getAll" THEN 1 ELSE 2
           results == [book.loadResults EXCEPT ![slot] = Some(res)]
           pending == book.loadPending \ {op}
       IN  /\ IF book.loadJoined
              THEN book' = [book EXCEPT !.loadPending = pending]
              ELSE IF res.kind = "throw"
              THEN book' = [book EXCEPT !.loadPending = pending, !.loadJoined = TRUE,
                                        !.error = "Failed to load patients and doctors",
                                        !.loading = FALSE]
              ELSE IF pending = {}
              THEN book' = [book EXCEPT !.loadPending = pending, !.loadJoined = TRUE,
                                        !.loadResults = results,
                                        !.patients = Val(Val(results[1]).value).patients,
                                        !.doctors = Val(Val(results[2]).value).doctors,
                                        !.loading = FALSE]
              ELSE book' = [book EXCEPT !.loadPending = pending, !.loadResults = results]
           /\ escaped' = IF book.loadJoined THEN escaped
                         ELSE escaped \cup Rejections("loadData", TryCatch(res))
    /\ ev' = Event("LoadSettle", {}, {}, op, outcome)
    /\ UNCHANGED <<route, storage, tz, login, api, lastWrite, pat, ex>>

\* SelectPicker onChange: one of the listed patients, or null when cleared
setSelectedPatient(value) ==
    /\ FormShown
    /\ book' = [book EXCEPT !.selectedPatient = value]
    /\ ev' = Event("onChange", {}, {}, "", NoOutcome)
    /\ UNCHANGED <<route, storage, tz, login, api, lastWrite, pat, ex, escaped>>

setSelectedDoctor(value) ==
    /\ FormShown
    /\ book' = [book EXCEPT !.selectedDoctor = value]
    /\ ev' = Event("onChange", {}, {}, "", NoOutcome)
    /\ UNCHANGED <<route, storage, tz, login, api, lastWrite, pat, ex, escaped>>

\* DatePicker onChange: a Date, or null when cleared
setDate(value) ==
    /\ FormShown
    /\ book' = [book EXCEPT !.date = value]
    /\ ev' = Event("onChange", {}, {}, "", NoOutcome)
    /\ UNCHANGED <<route, storage, tz, login, api, lastWrite, pat, ex, escaped>>

setTimeStr(value) ==
    /\ FormShown
    /\ book' = [book EXCEPT !.timeStr = value]
    /\ ev' = Event("onChange", {}, {}, "", NoOutcome)
    /\ UNCHANGED <<route, storage, tz, login, api, lastWrite, pat, ex, escaped>>

setReason(value) ==
    /\ FormShown
    /\ book' = [book EXCEPT !.reason = value]
    /\ ev' = Event("onChange", {}, {}, "", NoOutcome)
    /\ UNCHANGED <<route, storage, tz, login, api, lastWrite, pat, ex, escaped>>

\* the body handleSubmit passes to patientsAPI.appointments.create
appointmentData(b, offset) ==
    [patient |-> Val(b.selectedPatient),
     doctor  |-> Val(b.selectedDoctor),
     date    |-> formattedDate(Val(b.date), offset),
     time    |-> b.timeStr,
     reason  |-> IF TruthyText(b.reason) THEN Some(b.reason) ELSE None,
     status  |-> FALSE]

\* disabled={submitting} on the Book Appointment button
SubmitButtonDisabled == book.submitting

handleSubmitClearsBanner ==
    /\ FormShown
    /\ ~SubmitButtonDisabled
    /\ book.createPending < MaxInFlight
    /\ LET noPatient == ~TruthyNum(book.selectedPatient)
           noDoctor == ~TruthyNum(book.selectedDoctor)
           noDate == ~IsSome(book.date)
           noTime == ~TruthyText(trim(book.timeStr))
           isValid == ~noPatient /\ ~noDoctor /\ ~noDate /\ ~noTime
           sent == IF isValid
                   THEN Transmit(storage,
                                 OpConfig("patientsAPI.appointments.create", 0, 0,
                                          Some(appointmentData(book, tz))))
                   ELSE {}
       IN  /\ book' = [book EXCEPT
                         !.patientError = IF noPatient THEN "Patient is required" ELSE "",
                         !.doctorError = IF noDoctor THEN "Doctor is required" ELSE "",
                         !.dateError = IF noDate THEN "Date is required" ELSE "",
                         !.timeError = IF noTime THEN "Time is required" ELSE "",
                         !.submitting = IF isValid THEN TRUE ELSE @,
                         !.error = "",
                         !.createPending = IF isValid THEN @ + 1 ELSE @]
           /\ ev' = Event("handleSubmit",
                          IF isValid THEN {"patientsAPI.appointments.create"} ELSE {},
                          sent, "", NoOutcome)
    /\ UNCHANGED <<route, storage, tz, login, api, lastWrite, pat, ex, escaped>>

\* handleSubmit up to its await; a disabled button takes no click
handleSubmit ==
    /\ FormShown
    /\ ~SubmitButtonDisabled
    /\ book.createPending < MaxInFlight
    /\ LET noPatient == ~TruthyNum(book.selectedPatient)
           noDoctor == ~TruthyNum(book.selectedDoctor)
           noDate == ~IsSome(book.date)
           noTime == ~TruthyText(trim(book.timeStr))
           isValid == ~noPatient /\ ~noDoctor /\ ~noDate /\ ~noTime
           sent == IF isValid
                   THEN Transmit(storage,
                                 OpConfig("patientsAPI.appointments.create", 0, 0,
                                          Some(appointmentData(book, tz))))
                   ELSE {}
       IN  /\ book' = [book EXCEPT
                         !.patientError = IF noPatient THEN "Patient is required" ELSE "",
                         !.doctorError = IF noDoctor THEN "Doctor is required" ELSE "",
                         !.dateError = IF noDate THEN "Date is required" ELSE "",
                         !.timeError = IF noTime THEN "Time is required" ELSE "",
                         !.submitting = IF isValid THEN TRUE ELSE @,
                         !.error = IF isValid THEN "" ELSE @,
                         !.createPending = IF isValid THEN @ + 1 ELSE @]
           /\ ev' = Event("handleSubmit",
                          IF isValid THEN {"patientsAPI.appointments.create"} ELSE {},
                          sent, "", NoOutcome)
    /\ UNCHANGED <<route, storage, tz, login, api, lastWrite, pat, ex, escaped>>

\* error.response?.data?.error || error.response?.data?.message || "Failed ..."
BookMessage(error) ==
    Val(OrElse(ErrField(error, "error"),
               OrElse(ErrField(error, "message"),
                      Some("Failed to book appointment. Please try again."))))

CreateAnswers == {Answer(201, Payload)} \cup Failures

CreateSettleNavigates(outcome) ==
    /\ route = "BookAppointment"
    /\ book.createPending > 0
    /\ route' = "/appointments"
    /\ book' = BookInit
    /\ ev' = Event("CreateSettle", {}, {}, "patientsAPI.appointments.create", outcome)
    /\ UNCHANGED <<storage, tz, login, api, lastWrite, pat, ex, escaped>>

\* handleSubmit from its await on: try / catch / finally; navigate() unmounts
\* the component, and its state goes with it
CreateSettle(outcome) ==
    /\ route = "BookAppointment"
    /\ book.createPending > 0
    /\ LET res == OpResult("patientsAPI.appointments.create", outcome)
       IN  /\ IF res.kind = "return"
              THEN /\ route' = "/appointments"
                   /\ book' = BookInit
              ELSE /\ book' = [book EXCEPT !.error = BookMessage(res.error),
                                           !.submitting = FALSE, !.createPending = @ - 1]
                   /\ UNCHANGED route
           /\ escaped' = escaped \cup Rejections("handleSubmit", TryCatch(res))
    /\ ev' = Event("CreateSettle", {}, {}, "patientsAPI.appointments.create", outcome)
    /\ UNCHANGED <<storage, tz, login, api, lastWrite, pat, ex>>

\* the Cancel button, disabled while submitting
Cancel ==
    /\ FormShown
    /\ ~book.submitting
    /\ route' = "/appointments"
    /\ book' = BookInit
    /\ ev' = Event("Cancel", {}, {}, "", NoOutcome)
    /\ UNCHANGED <<storage, tz, login, api, lastWrite, pat, ex, escaped>>

----------------------------------------------------------------------------
(* Patients *)

\* the birth dates the backend can list
BirthDates ==
    {<<"1", "9", "9", "0", "-", "0", "6", "-", "1", "5">>,
     <<"2", "0", "0", "0", "-", "0", "1", "-", "0", "1">>}

\* what new Date() can show, in local time
Todays ==
    {[y |-> 2024, m |-> 6, d |-> 14, h |-> 12],
     [y |-> 2024, m |-> 6, d |-> 15, h |-> 12],
     [y |-> 2024, m |-> 12, d |-> 31, h |-> 12]}

PatientRows ==
    {<<>>} \cup {<<[patient_id |-> 1, date_of_birth |-> b]>> : b \in BirthDates}

PatInit(today) ==
    [patients |-> <<>>, loading |-> FALSE, error |-> "",
     mounted |-> FALSE,   \* the mount effect has run
     pending |-> 0,       \* the fetchPatients invocations awaiting patientsAPI.getAll
     today |-> today]     \* the clock

\* the row with the Retry button is rendered
RetryShown == ~pat.loading /\ pat.error # ""

\* the rows of the table are rendered
RowsShown == ~pat.loading /\ pat.error = "" /\ pat.patients # <<>>

\* the Age cell of each rendered row
AgeCells ==
    [i \in DOMAIN pat.patients |->
        calculateAge(pat.patients[i].date_of_birth, pat.today, tz)]

FetchTriggers == {"mount", "Retry"}

\* fetchPatients up to its await, run by the mount effect or by a click on Retry
fetchPatients(trigger) ==
    /\ route = "Patients"
    /\ IF trigger = "mount" THEN ~pat.mounted ELSE pat.mounted /\ RetryShown
    /\ pat.pending < MaxInFlight
    /\ pat' = [pat EXCEPT !.mounted = TRUE, !.loading = TRUE, !.error = "",
                          !.pending = @ + 1]
    /\ ev' = Event(trigger, {"patientsAPI.getAll"},
                   Transmit(storage, OpConfig("patientsAPI.getAll", 0, 0, None)),
                   "", NoOutcome)
    /\ UNCHANGED <<route, storage, tz, login, book, api, ex, lastWrite, escaped>>

PatientsAnswers ==
    {Answer(200, Some([patients |-> rows])) : rows \in PatientRows}
        \cup {NetworkError, Answer(401, None), Answer(500, None)}

FetchResumeNoFinally(res) ==
    [pat EXCEPT !.patients = IF res.kind = "return" THEN Val(res.value).patients ELSE @,
                !.error = IF res.kind = "throw"
                          THEN "Failed to fetch patients. Please try again." ELSE @,
                !.loading = IF res.kind = "return" THEN FALSE ELSE @,
                !.pending = @ - 1]

\* what fetchPatients does once its call has ended as res: try / catch / finally
FetchResume(res) ==
    [pat EXCEPT !.patients = IF res.kind = "return" THEN Val(res.value).patients ELSE @,
                !.error = IF res.kind = "throw"
                          THEN "Failed to fetch patients. Please try again." ELSE @,
                !.loading = FALSE,
                !.pending = @ - 1]

FetchSettleRetries(outcome) ==
    /\ route = "Patients"
    /\ pat.pending > 0
    /\ LET res == OpResult("patientsAPI.getAll", outcome)
       IN  IF res.kind = "throw" /\ pat.error = ""
           THEN /\ pat' = [pat EXCEPT !.error = "retrying"]
                /\ ev' = Event("FetchSettle", {"patientsAPI.getAll"},
                               Transmit(storage, OpConfig("patientsAPI.getAll", 0, 0, None)),
                               "patientsAPI.getAll", outcome)
                /\ UNCHANGED escaped
           ELSE /\ pat' = FetchResume(res)
                /\ ev' = Event("FetchSettle", {}, {}, "patientsAPI.getAll", outcome)
                /\ escaped' = escaped \cup Rejections("fetchPatients", TryCatch(res))
    /\ UNCHANGED <<route, storage, tz, login, book, api, ex, lastWrite>>

\* fetchPatients from its await on
FetchSettle(outcome) ==
    /\ route = "Patients"
    /\ pat.pending > 0
    /\ LET res == OpResult("patientsAPI.getAll", outcome)
       IN  /\ pat' = FetchResume(res)
           /\ escaped' = escaped \cup Rejections("fetchPatients", TryCatch(res))
    /\ ev' = Event("FetchSettle", {}, {}, "patientsAPI.getAll", outcome)
    /\ UNCHANGED <<route, storage, tz, login, book, api, ex, lastWrite>>

----------------------------------------------------------------------------
(* PatientsExample *)

\* the operations behind the buttons of PatientsExample
ExOps ==
    {"patientsAPI.getById", "patientsAPI.create", "patientsAPI.update",
     "patientsAPI.delete"}

ExInit ==
    [patients |-> <<>>, loading |-> FALSE,
     mounted |-> FALSE,                     \* the mount effect has run
     fetchPending |-> 0,                    \* fetchPatients invocations awaiting getAll
     opPending |-> [op \in ExOps |-> 0]]    \* button handlers awaiting their call

ExInFlight ==
    ex.fetchPending + ex.opPending["patientsAPI.getById"]
        + ex.opPending["patientsAPI.create"] + ex.opPending["patientsAPI.update"]
        + ex.opPending["patientsAPI.delete"]

\* the buttons are on screen: the component renders only a notice while loading
ExButtonsShown == route = "PatientsExample" /\ ex.mounted /\ ~ex.loading

\* fetchPatients of PatientsExample up to its await
ExFetchStart(e) == [e EXCEPT !.loading = TRUE, !.fetchPending = @ + 1]

\* useEffect(() => { fetchPatients() }, [])
Example_mount ==
    /\ route = "PatientsExample"
    /\ ~ex.mounted
    /\ ex' = ExFetchStart([ex EXCEPT !.mounted = TRUE])
    /\ ev' = Event("Example_mount", {"patientsAPI.getAll"},
                   Transmit(storage, OpConfig("patientsAPI.getAll", 0, 0, None)),
                   "", NoOutcome)
    /\ UNCHANGED <<route, storage, tz, login, book, api, pat, lastWrite, escaped>>

\* fetchPatients of PatientsExample from its await on: try / catch / finally
Example_fetchSettle(outcome) ==
    /\ route = "PatientsExample"
    /\ ex.fetchPending > 0
    /\ LET res == OpResult("patientsAPI.getAll", outcome)
       IN  /\ ex' = [ex EXCEPT
                       !.patients = IF res.kind = "return"
                                    THEN Val(res.value).patients ELSE @,
                       !.loading = FALSE,
                       !.fetchPending = @ - 1]
           /\ escaped' = escaped \cup Rejections("Example_fetchPatients", TryCatch(res))
    /\ ev' = Event("Example_fetchSettle", {}, {}, "patientsAPI.getAll", outcome)
    /\ UNCHANGED <<route, storage, tz, login, book, api, pat, lastWrite>>

\* a button handler up to its await: the buttons are never disabled
ExampleCall(handler, op, id) ==
    /\ ExButtonsShown
    /\ ExInFlight < MaxInFlight
    /\ ex' = [ex EXCEPT !.opPending[op] = @ + 1]
    /\ ev' = Event(handler, {op}, Transmit(storage, OpConfig(op, id, 0, Payload)),
                   "", NoOutcome)
    /\ UNCHANGED <<route, storage, tz, login, book, api, pat, lastWrite, escaped>>

\* View Details of a listed patient
Example_fetchPatient(id) ==
    ExampleCall("Example_fetchPatient", "patientsAPI.getById", id)

\* Add New Patient
Example_createPatient ==
    ExampleCall("Example_createPatient", "patientsAPI.create", 0)

\* Update of a listed patient
Example_updatePatient(id) ==
    ExampleCall("Example_updatePatient", "patientsAPI.update", id)

\* Delete of a listed patient
Example_deletePatient(id) ==
    ExampleCall("Example_deletePatient", "patientsAPI.delete", id)

\* the operations whose handler calls fetchPatients() after a success, without
\* awaiting it
ExRefreshOps == ExOps \ {"patientsAPI.getById"}

\* a button handler from its await on: try { ...; fetchPatients() } catch
Example_opSettle(op, outcome) ==
    /\ route = "PatientsExample"
    /\ ex.opPending[op] > 0
    /\ LET res == OpResult(op, outcome)
           done == [ex EXCEPT !.opPending[op] = @ - 1]
           refresh == res.kind = "return" /\ op \in ExRefreshOps
       IN  /\ ex' = IF refresh THEN ExFetchStart(done) ELSE done
           /\ ev' = Event("Example_opSettle",
                          IF refresh THEN {"patientsAPI.getAll"} ELSE {},
                          IF refresh
                          THEN Transmit(storage, OpConfig("patientsAPI.getAll", 0, 0, None))
                          ELSE {},
                          op, outcome)
           /\ escaped' = escaped \cup Rejections("Example_handler", TryCatch(res))
    /\ UNCHANGED <<route, storage, tz, login, book, api, pat, lastWrite>>

ExAnswers == {Answer(200, Payload), NetworkError, Answer(401, None), Answer(500, None)}

----------------------------------------------------------------------------
(* The specification *)

TzOffsets == {-8, 0, 5}

NoTokens == [k \in StorageKeys |-> None]

\* what an earlier session may have left in localStorage
LoggedIn == setTokens(NoTokens, "tA", "tB")

InitStorages == {NoTokens, LoggedIn}

Routes == {"api", "Login", "BookAppointment", "Patients", "PatientsExample"}

\* the components that read the local time zone
TzRoutes == {"BookAppointment", "Patients"}

Init ==
    /\ route \in Routes
    /\ storage \in IF route \in {"api", "Login"} THEN InitStorages ELSE {LoggedIn}
    /\ tz \in IF route \in TzRoutes THEN TzOffsets ELSE {0}
    /\ login = LoginInit
    /\ book = BookInit
    /\ api = ApiInit
    /\ pat \in {PatInit(today) : today \in IF route = "Patients" THEN Todays
                                           ELSE {CHOOSE t \in Todays : t.d = 14}}
    /\ ex = ExInit
    /\ ev = Event("mount", {}, {}, "", NoOutcome)
    /\ lastWrite = [op |-> "none", access |-> "", refresh |-> ""]
    /\ escaped = {}

ApiNext ==
    \/ \E a, r \in TokenStrings : CallSetTokens(a, r)
    \/ CallRemoveTokens
    \/ CallGetAccessToken
    \/ CallGetRefreshToken
    \/ CallIsAuthenticated
    \/ \E op \in ApiOps : \E args \in OpArgs(op) : ApiCall(op, args[1], args[2])
    \/ \E outcome \in ApiAnswers : ApiSettle(outcome)

LoginNext ==
    \/ \E v \in Texts : setEmail(v)
    \/ \E v \in Texts : setPassword(v)
    \/ onButtonClick
    \/ \E outcome \in LoginAnswers : LoginSettle(outcome)

BookNext ==
    \/ loadData
    \/ \E op \in {"patientsAPI.getAll", "doctorsAPI.getAll"} :
           \E outcome \in ListAnswers(op) : LoadSettle(op, outcome)
    \/ \E v \in {None} \cup {Some(id) : id \in Elems(book.patients)} : setSelectedPatient(v)
    \/ \E v \in {None} \cup {Some(id) : id \in Elems(book.doctors)} : setSelectedDoctor(v)
    \/ \E v \in {None} \cup {Some(t) : t \in DateSamples} : setDate(v)
    \/ \E v \in TimeTexts : setTimeStr(v)
    \/ \E v \in ReasonTexts : setReason(v)
    \/ handleSubmit
    \/ \E outcome \in CreateAnswers : CreateSettle(outcome)
    \/ Cancel

PatientsNext ==
    \/ \E trigger \in FetchTriggers : fetchPatients(trigger)
    \/ \E outcome \in PatientsAnswers : FetchSettle(outcome)

ExampleNext ==
    \/ Example_mount
    \/ \E outcome \in ListAnswers("patientsAPI.getAll") : Example_fetchSettle(outcome)
    \/ \E id \in Elems(ex.patients) : Example_fetchPatient(id)
    \/ Example_createPatient
    \/ \E id \in Elems(ex.patients) : Example_updatePatient(id)
    \/ \E id \in Elems(ex.patients) : Example_deletePatient(id)
    \/ \E op \in ExOps : \E outcome \in ExAnswers : Example_opSettle(op, outcome)

Next == ApiNext \/ LoginNext \/ BookNext \/ PatientsNext \/ ExampleNext

Spec == Init /\ [][Next]_vars

----------------------------------------------------------------------------
(* Claims *)

\* empty or made of white space only
Blank(text) == \A i \in 1 .. Len(text) : text[i] = " "

\* C1: a click on Log in with a blank email or a blank password sets the
\* required-field error of exactly each blank field, clears the error of each
\* field that is not blank, and does not invoke authAPI.login.
C1_LoginValidation ==
    (ev.name = "onButtonClick" /\ (Blank(login.email) \/ Blank(login.password))) =>
        /\ login.emailError = (IF Blank(login.email) THEN "Email is required" ELSE "")
        /\ login.passwordError =
               (IF Blank(login.password) THEN "Password is required" ELSE "")
        /\ ev.calls = {}
        /\ ev.sent = {}
        /\ login.pending = 0

C1_Witness ==
    /\ ev.name = "onButtonClick"
    /\ login.email = <<" ", " ">>
    /\ login.password = <<"a">>
    /\ login.emailError = "Email is required"
    /\ login.passwordError = ""
    /\ ev.calls = {}

\* the required fields of the booking form that are not supplied
MissingFields ==
    (IF book.selectedPatient = None THEN {"patient"} ELSE {})
        \cup (IF book.selectedDoctor = None THEN {"doctor"} ELSE {})
        \cup (IF book.date = None THEN {"date"} ELSE {})
        \cup (IF Blank(book.timeStr) THEN {"time"} ELSE {})

\* C2: a submit of the booking form with a required field missing issues no
\* appointments.create call, and after any submit a field's error message is
\* set if and only if that field is missing.
C2_OnlyMissingFlagged ==
    ev.name = "handleSubmit" =>
        /\ MissingFields # {} => (ev.calls = {} /\ ev.sent = {})
        /\ book.patientError # "" <=> "patient" \in MissingFields
        /\ book.doctorError # "" <=> "doctor" \in MissingFields
        /\ book.dateError # "" <=> "date" \in MissingFields
        /\ book.timeError # "" <=> "time" \in MissingFields

\* C3: a submit with a listed patient, a listed doctor, a date and a non-blank
\* time invokes appointments.create exactly once, with the selected
\* identifiers, the entered time, status false, and the entered reason or
\* undefined when none was entered.
C3_CreateCalled ==
    (ev.name = "handleSubmit" /\ MissingFields = {}) =>
        /\ ev.calls = {"patientsAPI.appointments.create"}
        /\ Cardinality(ev.sent) = 1
        /\ \A r \in ev.sent :
              /\ IsSome(r.data)
              /\ DOMAIN Val(r.data) =
                     {"patient", "doctor", "date", "time", "reason", "status"}
              /\ Val(r.data).patient = Val(book.selectedPatient)
              /\ Val(r.data).doctor = Val(book.selectedDoctor)
              /\ Val(r.data).time = book.timeStr
              /\ Val(r.data).status = FALSE
              /\ Val(r.data).reason =
                     (IF book.reason = <<>> THEN None ELSE Some(book.reason))

\* YYYY-MM-DD of a calendar date
Render(t) == Pad4(t.y) \o <<"-">> \o Pad2(t.m) \o <<"-">> \o Pad2(t.d)

\* C4: the date sent in the creation call is the YYYY-MM-DD rendering of the
\* calendar date selected in the picker, in every time zone.
C4_DateIsSelectedDay ==
    ev.name = "handleSubmit" =>
        \A r \in ev.sent : Val(r.data).date = Render(Val(book.date))

\* C5: after setTokens(a, r), as long as no later write happens, getAccessToken()
\* is a and getRefreshToken() is r; after removeTokens() both are absent.
C5_TokenRoundTrip ==
    /\ lastWrite.op = "setTokens" =>
           /\ getAccessToken = Some(lastWrite.access)
           /\ getRefreshToken = Some(lastWrite.refresh)
    /\ lastWrite.op = "removeTokens" =>
           /\ getAccessToken = None
           /\ getRefreshToken = None

C5_Witness ==
    /\ ev.name = "setTokens"
    /\ ev.store["authToken"] = Some("tB")
    /\ lastWrite.access = "tA"
    /\ lastWrite.refresh = ""
    /\ getAccessToken = Some("tA")
    /\ getRefreshToken = Some("")

\* C6 as stated: every request transmitted while an access token is persisted
\* carries Authorization: Bearer <the token stored at that moment>.
C6_BearerWheneverPersisted ==
    \A r \in ev.sent :
        IsSome(ev.store["authToken"]) =>
            r.headers.Authorization = Some(Bearer(Val(ev.store["authToken"])))

\* C6 as amended: every request transmitted while a non-empty access token is
\* persisted carries Authorization: Bearer <the token stored at that moment>.
C6_BearerAttached ==
    \A r \in ev.sent :
        (IsSome(ev.store["authToken"]) /\ Val(ev.store["authToken"]) # "") =>
            r.headers.Authorization = Some(Bearer(Val(ev.store["authToken"])))

C6_Witness ==
    /\ ev.name = "apiCall"
    /\ lastWrite.op = "setTokens"
    /\ lastWrite.access = "tB"
    /\ \E r \in ev.sent : r.headers.Authorization = Some(Bearer("tB"))

\* C7: an operation invoked while no access token is persisted still transmits
\* its request, one per operation, without an Authorization header, and the
\* call stays pending on the network instead of failing locally.
C7_UnauthenticatedPassThrough ==
    (ev.calls # {} /\ ev.store["authToken"] = None) =>
        /\ Cardinality(ev.sent) = Cardinality(ev.calls)
        /\ \A r \in ev.sent : r.headers.Authorization = None
        /\ ev.name = "apiCall" => (IsSome(api.pending) /\ api.result = None)
        /\ ev.name = "onButtonClick" => login.pending = 1

C7_Witness ==
    /\ ev.name = "apiCall"
    /\ lastWrite.op = "removeTokens"
    /\ ev.store["authToken"] = None
    /\ ev.calls = {"patientsAPI.appointments.getAll"}
    /\ Cardinality(ev.sent) = 1
    /\ api.pending = Some("patientsAPI.appointments.getAll")

\* the call did not end with a 2xx response
Failed(outcome) ==
    outcome.kind = "network" \/ outcome.status < 200 \/ outcome.status > 299

\* C8: an operation whose call ends in a transport failure or a non-2xx
\* response throws to its caller and returns nothing; it returns only on a 2xx
\* response, and what it returns is then the response body (nothing, for the
\* operations declared void).
C8_FailureSurfaces ==
    ev.name = "apiSettle" =>
        /\ IsSome(api.result)
        /\ Failed(ev.outcome) => Val(api.result).kind = "throw"
        /\ ~Failed(ev.outcome) =>
               /\ Val(api.result).kind = "return"
               /\ Val(api.result).value =
                      (IF ev.op \in VoidOps THEN None ELSE ev.outcome.data)

C8_Witness ==
    /\ ev.name = "apiSettle"
    /\ ev.op = "patientsAPI.getAll"
    /\ ev.outcome = Answer(500, Payload)
    /\ Val(api.result).kind = "throw"

\* the failed answer carries a body with the given field
HasField(outcome, field) ==
    /\ outcome.kind = "response"
    /\ IsSome(outcome.data)
    /\ IsSome(Val(outcome.data)[field])

\* C9: when the login or the booking request fails with a non-2xx response
\* whose body has a detail field, the message shown is that field's value.
C9_DetailShown ==
    /\ (ev.name = "LoginSettle" /\ Failed(ev.outcome) /\ HasField(ev.outcome, "detail")) =>
           login.loginError = Val(Val(ev.outcome.data).detail)
    /\ (ev.name = "CreateSettle" /\ Failed(ev.outcome) /\ HasField(ev.outcome, "detail")) =>
           book.error = Val(Val(ev.outcome.data).detail)

\* C10: when the login or the booking request fails with no response, or with
\* a body that has neither detail nor message, the message shown is the form's
\* generic message.
C10_GenericFallback ==
    /\ (ev.name = "LoginSettle" /\ Failed(ev.outcome)
            /\ ~HasField(ev.outcome, "detail") /\ ~HasField(ev.outcome, "message")) =>
           login.loginError = "Invalid credentials. Please try again."
    /\ (ev.name = "CreateSettle" /\ Failed(ev.outcome)
            /\ ~HasField(ev.outcome, "detail") /\ ~HasField(ev.outcome, "message")) =>
           book.error = "Failed to book appointment. Please try again."

\* C11: on the login form and on the booking form, however clicks and
\* responses interleave, at most one submission request is awaiting its answer
\* at any time, and while one is awaiting the submit button is disabled, so a
\* click issues no second request.
C11_SingleSubmission ==
    /\ login.pending <= 1
    /\ book.createPending <= 1
    /\ login.pending > 0 => LoginButtonDisabled
    /\ book.createPending > 0 => SubmitButtonDisabled

C11_Witness ==
    /\ ev.name = "onChange"
    /\ login.pending = 1
    /\ login.isLoading

\* C12: on the login form, the booking form (initial load and submit) and the
\* patients page, a request that set the busy / loading flag leaves it reset
\* once it has completed, with success or with failure: the flag is false in
\* the step in which the handler resumes, and it is false whenever none of the
\* page's requests is still awaiting its answer.
C12_BusyReset ==
    /\ login.pending = 0 => ~login.isLoading
    /\ book.loadPending = {} => ~book.loading
    /\ book.createPending = 0 => ~book.submitting
    /\ pat.pending = 0 => ~pat.loading
    /\ ev.name = "LoginSettle" => ~login.isLoading
    /\ (ev.name = "LoadSettle" /\ book.loadJoined) => ~book.loading
    /\ ev.name = "CreateSettle" => ~book.submitting
    /\ ev.name = "FetchSettle" => ~pat.loading

C12_Witness ==
    /\ ev.name = "FetchSettle"
    /\ Failed(ev.outcome)
    /\ pat.pending = 0
    /\ pat.error # ""
    /\ ~pat.loading

\* C13: every invocation of an API operation transmits exactly one request,
\* and a handler that resumes from a failed call transmits nothing and invokes
\* nothing: a further request comes only from a new user action, and a click
\* on Retry re-invokes the list fetch once.
C13_NoRetry ==
    /\ Cardinality(ev.sent) = Cardinality(ev.calls)
    /\ (ev.op # "" /\ Failed(ev.outcome)) => (ev.calls = {} /\ ev.sent = {})
    /\ ev.name = "Retry" =>
           (ev.calls = {"patientsAPI.getAll"} /\ Cardinality(ev.sent) = 1 /\ pat.pending = 1)
    /\ (ev.name = "FetchSettle" /\ Failed(ev.outcome)) => pat.pending = 0
    /\ (ev.name = "LoginSettle" /\ Failed(ev.outcome)) => login.pending = 0
    /\ (ev.name = "CreateSettle" /\ Failed(ev.outcome)) => book.createPending = 0

C13_Witness ==
    /\ ev.name = "Retry"
    /\ Cardinality(ev.sent) = 1
    /\ pat.pending = 1
    /\ pat.loading

\* C14: a handler that resumes from a 401 answer transmits nothing and invokes
\* nothing (no refresh call, no re-send of the rejected request), and a request
\* to the refresh endpoint is only ever transmitted by a caller's own
\* invocation of authAPI.refreshToken.
C14_NoAutoRefresh ==
    /\ (ev.op # "" /\ ev.outcome.kind = "response" /\ ev.outcome.status = 401) =>
           (ev.calls = {} /\ ev.sent = {})
    /\ "authAPI.refreshToken" \in ev.calls => ev.name = "apiCall"
    /\ \A r \in ev.sent :
           r.url = auth_tokenRefresh =>
               (ev.name = "apiCall" /\ ev.calls = {"authAPI.refreshToken"})

C14_Witness ==
    /\ ev.name = "apiSettle"
    /\ ev.op = "patientsAPI.getById"
    /\ ev.outcome = Answer(401, None)
    /\ IsSome(getRefreshToken)
    /\ ev.sent = {}
    /\ Val(api.result).kind = "throw"

\* C15: the booking form navigates to the appointments view when the creation
\* call has succeeded; a submit blocked by validation and a creation that
\* failed do not navigate, and after a failed creation the form is still
\* mounted with its error message set.
C15_BookingNavigation ==
    /\ ev.name = "handleSubmit" => route = "BookAppointment"
    /\ (ev.name = "CreateSettle" /\ ~Failed(ev.outcome)) => route = "/appointments"
    /\ (ev.name = "CreateSettle" /\ Failed(ev.outcome)) =>
           /\ route = "BookAppointment"
           /\ book.mounted
           /\ book.error # ""
    /\ route = "/appointments" =>
           \/ ev.name = "CreateSettle" /\ ~Failed(ev.outcome)
           \/ ev.name = "Cancel"

C15_Witness ==
    /\ ev.name = "CreateSettle"
    /\ ev.outcome = Answer(201, Payload)
    /\ route = "/appointments"

\* the Promise.all of loadData was rejected
LoadFailed ==
    book.loadJoined /\ (book.loadResults[1] = None \/ book.loadResults[2] = None)

\* C16: loadData issues the patients fetch and the doctors fetch in the same
\* step; in every order of the two answers the lists are filled only once both
\* fetches have succeeded, and then with the two answers; when either fails,
\* both lists stay as they were, the message 'Failed to load patients and
\* doctors' is set, and the form is shown with neither list.
C16_JoinedLoad ==
    /\ ev.name = "loadData" =>
           /\ ev.calls = {"patientsAPI.getAll", "doctorsAPI.getAll"}
           /\ Cardinality(ev.sent) = 2
           /\ book.loadPending = ev.calls
    /\ (book.patients # <<>> \/ book.doctors # <<>>) =>
           /\ book.loadPending = {}
           /\ ~LoadFailed
           /\ book.patients = Val(Val(book.loadResults[1]).value).patients
           /\ book.doctors = Val(Val(book.loadResults[2]).value).doctors
    /\ (ev.name = "LoadSettle" /\ Failed(ev.outcome)) => LoadFailed
    /\ (route = "BookAppointment" /\ LoadFailed) =>
           /\ book.patients = <<>>
           /\ book.doctors = <<>>
           /\ book.error = "Failed to load patients and doctors"
           /\ ~book.loading

C16_Witness ==
    /\ ev.name = "LoadSettle"
    /\ ev.op = "doctorsAPI.getAll"
    /\ Failed(ev.outcome)
    /\ book.loadPending = {}
    /\ LoadFailed
    /\ FormShown
    /\ book.patients = <<>>

\* a URL as one string
RECURSIVE Join(_)
Join(url) == IF url = <<>> THEN "" ELSE Head(url) \o Join(Tail(url))

\* the method listed for an operation: GET for getAll / getById / get, POST
\* for create and the three auth operations, PUT for update, DELETE for delete
ListedMethod(op) ==
    IF op \in AuthOps
           \cup {"patientsAPI.create", "patientsAPI.vitals.create",
                 "patientsAPI.medicalRecords.create", "patientsAPI.emergencyContact.create",
                 "patientsAPI.checkIns.create", "patientsAPI.appointments.create",
                 "doctorsAPI.create"}
    THEN "POST"
    ELSE IF op \in {"patientsAPI.update", "patientsAPI.vitals.update",
                    "patientsAPI.medicalRecords.update",
                    "patientsAPI.emergencyContact.update", "patientsAPI.checkIns.update",
                    "patientsAPI.appointments.update", "doctorsAPI.update"}
    THEN "PUT"
    ELSE IF op \in VoidOps THEN "DELETE"
    ELSE "GET"

\* the operations on a collection path
CollectionOps ==
    {"patientsAPI.getAll", "patientsAPI.create",
     "patientsAPI.medicalRecords.getAll", "patientsAPI.medicalRecords.create",
     "patientsAPI.checkIns.getAll", "patientsAPI.checkIns.create",
     "patientsAPI.appointments.getAll", "patientsAPI.appointments.create",
     "doctorsAPI.getAll", "doctorsAPI.create"}

\* the path listed for an operation, with its identifiers substituted
ListedPath(op, id, rid) ==
    CASE op = "authAPI.login" -> "/api/token/"
      [] op = "authAPI.refreshToken" -> "/api/token/refresh/"
      [] op = "authAPI.register" -> "/register"
      [] op \in PatientOps ->
            IF op \in CollectionOps THEN "/patients/"
            ELSE "/patients/" \o ToString(id)
      [] op \in VitalsOps -> "/patients/" \o ToString(id) \o "/vitals"
      [] op \in RecordOps ->
            IF op \in CollectionOps THEN "/patients/" \o ToString(id) \o "/records"
            ELSE "/patients/" \o ToString(id) \o "/records/" \o ToString(rid)
      [] op \in ContactOps -> "/patients/" \o ToString(id) \o "/emergency_contact"
      [] op \in CheckInOps ->
            IF op \in CollectionOps THEN "/patients/check-ins"
            ELSE "/patients/check-ins/" \o ToString(id)
      [] op \in AppointmentOps ->
            IF op \in CollectionOps THEN "/patients/appointments"
            ELSE "/patients/appointments/" \o ToString(id)
      [] op \in DoctorOps ->
            IF op \in CollectionOps THEN "/staff/doctors"
            ELSE "/staff/doctors/" \o ToString(id)

\* C17: every operation of authAPI, patientsAPI and doctorsAPI transmits one
\* request whose method and path are the ones listed for it, with the
\* identifiers it was called with substituted into the path.
C17_HttpMapping ==
    ev.name = "apiCall" =>
        \A op \in ev.calls :
            /\ Cardinality(ev.sent) = 1
            /\ \A r \in ev.sent :
                   /\ r.method = ListedMethod(op)
                   /\ Join(r.url) = ListedPath(op, api.args[1], api.args[2])

C17_Witness ==
    /\ ev.name = "apiCall"
    /\ ev.calls = {"patientsAPI.medicalRecords.update"}
    /\ api.args = <<1, 0>>
    /\ \E r \in ev.sent : r.method = "PUT" /\ Join(r.url) = "/patients/1/records/0"

\* the whole years from a calendar date of birth to the calendar date today
WholeYears(birth, today) ==
    IF today.m < birth.m \/ (today.m = birth.m /\ today.d < birth.d)
    THEN today.y - birth.y - 1
    ELSE today.y - birth.y

\* C18: for every listed birth date, system date and time zone, the age shown
\* in a patient's row is the number of whole years from the birth date, as
\* written, to today.
C18_AgeIsWholeYears ==
    (route = "Patients" /\ RowsShown) =>
        \A i \in DOMAIN pat.patients :
            AgeCells[i] = WholeYears(ParseDateOnly(pat.patients[i].date_of_birth), pat.today)

\* C19 as stated: after any sequence of setTokens (with arbitrary strings, the
\* empty string included) and removeTokens, isAuthenticated() returns true
\* exactly when an access token is stored under the access-token key, and it
\* leaves the stored tokens as they were.
C19_PresenceCheck ==
    ev.name = "isAuthenticated" =>
        /\ Val(api.result).value = Some(IsSome(getAccessToken))
        /\ storage = ev.store

\* C19 as amended: isAuthenticated() returns true exactly when a non-empty
\* access token is stored, and it leaves the stored tokens as they were.
C19_NonEmptyTokenCheck ==
    ev.name = "isAuthenticated" =>
        /\ Val(api.result).value =
               Some(IsSome(getAccessToken) /\ Val(getAccessToken) # "")
        /\ storage = ev.store

C19_Witness ==
    /\ ev.name = "isAuthenticated"
    /\ lastWrite.op = "setTokens"
    /\ lastWrite.access = "tA"
    /\ lastWrite.refresh = ""
    /\ Val(api.result).value = Some(TRUE)

C21_TokensTogether ==
    IsSome(getItem(storage, "authToken")) <=> IsSome(getItem(storage, "refreshToken"))

C21_Witness ==
    /\ ev.name = "removeTokens"
    /\ IsSome(ev.store["authToken"])
    /\ IsSome(ev.store["refreshToken"])
    /\ getAccessToken = None
    /\ getRefreshToken = None

\* C22: the login form is on the dashboard route only as the outcome of an
\* authAPI.login call that succeeded, and the access and refresh tokens of
\* that response are then the persisted ones; a click blocked by validation,
\* a click that starts the request, and a request that fails leave the route
\* on the login form and the persisted tokens exactly as they were.
C22_LoginOrdering ==
    /\ route = "/dashboard" =>
           /\ ev.name = "LoginSettle"
           /\ ~Failed(ev.outcome)
           /\ getAccessToken = Some(Val(ev.outcome.data).access)
           /\ getRefreshToken = Some(Val(ev.outcome.data).refresh)
    /\ ev.name = "onButtonClick" => (route = "Login" /\ storage = ev.store)
    /\ (ev.name = "LoginSettle" /\ Failed(ev.outcome)) =>
           (route = "Login" /\ storage = ev.store)

C22_Witness ==
    /\ route = "/dashboard"
    /\ ev.name = "LoginSettle"
    /\ ev.store = LoggedIn
    /\ getAccessToken = Some("tB")
    /\ getRefreshToken = Some("tA")

\* C23: in the Patients page and in PatientsExample, whatever the user does
\* and in whatever order the answers arrive, the loading flag is true as long
\* as a list fetch of that view is awaiting its answer.
C23_LoadingTracksFetches ==
    /\ pat.pending > 0 => pat.loading
    /\ ex.fetchPending > 0 => ex.loading

IsDigit(c) == \E k \in 0 .. 9 : Digit(k) = c

\* "HH:MM": a two-digit hour of the 24-hour clock, a colon, a two-digit minute
IsHHMM(text) ==
    /\ Len(text) = 5
    /\ text[3] = ":"
    /\ \A i \in {1, 2, 4, 5} : IsDigit(text[i])
    /\ Number(SubSeq(text, 1, 2)) <= 23
    /\ Number(SubSeq(text, 4, 5)) <= 59

\* C24: the time carried by every creation call of the booking form is a
\* string of the form "HH:MM", whatever the user typed into the time field.
C24_TimeIsHHMM ==
    ev.name = "handleSubmit" =>
        \A r \in ev.sent : IsHHMM(Val(r.data).time)

\* C25: a step leaves localStorage as it found it unless it is a call of
\* setTokens or removeTokens (the login form's call of setTokens after a
\* successful login included): no operation of authAPI, patientsAPI or
\* doctorsAPI, started or settled, with success or failure, no request
\* interceptor run, and no call of getAccessToken, getRefreshToken or
\* isAuthenticated changes either token key.
C25_OnlyHelpersWrite ==
    (/\ ev.name \notin {"setTokens", "removeTokens"}
     /\ ~(ev.name = "LoginSettle" /\ ~Failed(ev.outcome))) =>
        storage = ev.store

C25_Witness ==
    /\ ev.name = "apiSettle"
    /\ ev.op = "authAPI.refreshToken"
    /\ ev.outcome = Answer(200, Payload)
    /\ Val(api.result).kind = "return"
    /\ storage = LoggedIn

\* the useState cells of the four field-level messages
FieldErrors == {"patientError", "doctorError", "dateError", "timeError"}

\* C26: a submit of the booking form with a required field missing changes
\* nothing but the four field-level messages (the banner, the submitting
\* flag, the loaded lists and the entered values stay as they were, and no
\* call is made), and while the form is mounted a banner that is set is
\* cleared only by a submit that passes validation.
C26_BlockedSubmitFrame ==
    [][/\ (ev'.name = "handleSubmit" /\ MissingFields # {}) =>
              /\ \A f \in DOMAIN book \ FieldErrors : book'[f] = book[f]
              /\ route' = route
              /\ storage' = storage
              /\ ev'.calls = {}
       /\ (route' = "BookAppointment" /\ book.error # "" /\ book'.error = "") =>
              (ev'.name = "handleSubmit" /\ ev'.calls # {})]_vars

C26_Witness ==
    /\ ev.name = "handleSubmit"
    /\ ev.calls = {}
    /\ book.error = "Failed to load patients and doctors"
    /\ book.patientError = "Patient is required"
    /\ book.timeStr = <<"9">>
    /\ book.timeError = ""

====
